---- MODULE Spec2Model ----
(***************************************************************************)
(* Proof verification of snark-proof-chat: the verify-zk-proof edge        *)
(* function (supabase/functions/verify-zk-proof/index.ts, the handler with *)
(* vkey and verifierUrl), the verifier service it forwards to (verify.js), *)
(* and the send-message edge function that calls it and stores messages.   *)
(*                                                                         *)
(* JavaScript values are modelled by tags: "undefined" is an absent field, *)
(* "null" the null value, "emptyArray" the array [] (truthy in             *)
(* JavaScript), and the other tags are non-empty values.  A group element  *)
(* of a proof is "valid" (the coordinates the prover computed) or          *)
(* "tampered" (a coordinate changed).                                      *)
(*                                                                         *)
(* Spec is the two edge functions handling one request at a time;          *)
(* ReplaySpec is Spec with room in the table for a second message; KeySpec *)
(* is the key load of send-message in handlers that run at the same time;  *)
(* CompareSpec applies the verify-zk-proof handler, as a function, to two  *)
(* calls and keeps both outcomes.  AuthSpec applies the checks send-message*)
(* makes before the proof to one request.  LogSpec is the log-to-solana    *)
(* handler with the retry loop and LogSingleSpec the one with a single     *)
(* getTransaction call.  TokenSpec is getSPLTokenBalance of tokenGating.ts *)
(* in two callers that share currentEndpointIndex, GateSpec applies        *)
(* checkTokenGating to what its calls answered, and HookSpec is the        *)
(* useRealtimeMessages hook from mount on: the initial fetch, the channel  *)
(* events and sendMessage.                                                 *)
(***************************************************************************)
EXTENDS Integers, Sequences, FiniteSets, TLC

\* ------------------------------------------------------------- bounds
\* Longest publicSignals array a request carries.
MaxSignals == 3
\* Rows the messages table holds before the model stops accepting requests.
MaxMessages == 1
\* The same, where one transaction is sent again after it was accepted.
MaxReplayMessages == 2
\* Key downloads after which the model starts no further key load.
MaxKeyFetches == 3
\* Latest reading of the handler's clock, in milliseconds.
MaxClock == 1

\* ------------------------------------------------------------ domains
\* A group element of a proof: the prover's coordinates, coordinates with one
\* changed, the array [], or no such field.
PiVals == {"valid", "tampered", "emptyArray", "undefined"}

\* A field that is missing from a JSON body reads as undefined.
Absent == "undefined"

\* The proof field of a request body: missing, or an object with the three
\* group elements (each of which may itself be missing or empty).
Proofs ==
    {[present |-> FALSE, pi_a |-> Absent, pi_b |-> Absent, pi_c |-> Absent]}
    \cup [present : {TRUE}, pi_a : PiVals, pi_b : PiVals, pi_c : PiVals]

SignalVals == {"1", "2"}

SeqsUpTo(S, n) == UNION {[1..k -> S] : k \in 0..n}

\* The publicSignals field: missing, or an array of field-element strings.
PublicSignalsDomain ==
    {[present |-> FALSE, arr |-> <<>>]}
    \cup [present : {TRUE}, arr : SeqsUpTo(SignalVals, MaxSignals)]

\* vkey: null (send-message found no key), or the circuit's verification key.
VKeys == {"null", "vk"}

\* verifierUrl: unset, or the URL of a verifier service.
VerifierUrls == {"undefined", "url"}

\* The statement the reference proof was generated for (the circuit exposes
\* three public signals).
RefSignals == <<"1", "2", "1">>

Wallets == {"w1", "w2"}
TxSignatures == {"tx1"}
MessageHashes == {"h1", "h2"}

\* JavaScript truthiness of a tagged value: undefined, null and "" are falsy,
\* every array (the empty one too) and every non-empty string is truthy.
Truthy(v) == v \notin {"undefined", "null", ""}

\* Boolean(x) of JavaScript on a tagged value; "false" is the boolean false.
JsBoolean(v) == v \notin {"undefined", "null", "", "false"}

\* a || b of JavaScript on tagged values.
JsOr(a, b) == IF JsBoolean(a) THEN a ELSE b

\* ------------------------------------------------ the verifier service
\* snarkjs.groth16.verify(vkey, publicSignals, proof): the outcomes the
\* library can produce.  It answers true exactly for the untampered proof of
\* the statement under the circuit's key; on input it cannot decode (an empty
\* group element, a wrong number of public signals) it answers false or
\* throws; every other proof fails the pairing equation.
Groth16Outcomes(vk, signals, proof) ==
    IF \/ "emptyArray" \in {proof.pi_a, proof.pi_b, proof.pi_c}
       \/ Len(signals.arr) # Len(RefSignals)
    THEN {"false", "throw"}
    ELSE IF /\ vk = "vk"
            /\ proof.pi_a = "valid" /\ proof.pi_b = "valid" /\ proof.pi_c = "valid"
            /\ signals.arr = RefSignals
         THEN {"true"}
         ELSE {"false"}

NoDelegateResponse ==
    [status |-> 0, parseable |-> FALSE, verified |-> Absent,
     timestamp |-> Absent, error |-> Absent]

\* The service refusing empty group elements as well as missing ones.
ServiceValidateMutantNonEmpty(body) ==
    IF ~body.proof.present \/ ~body.publicSignals.present \/ ~Truthy(body.vkey)
    THEN [status |-> 400, parseable |-> TRUE, verified |-> Absent,
          timestamp |-> Absent,
          error |-> "Missing required fields: proof, publicSignals, or vkey"]
    ELSE IF {body.proof.pi_a, body.proof.pi_b, body.proof.pi_c}
               \cap {"undefined", "emptyArray"} # {}
    THEN [status |-> 400, parseable |-> TRUE, verified |-> Absent,
          timestamp |-> Absent, error |-> "Invalid proof structure"]
    ELSE [status |-> 0, parseable |-> FALSE, verified |-> Absent,
          timestamp |-> Absent, error |-> Absent]

\* verify.js, input validation: the 400 answer, or "pass".
ServiceValidate(body) ==
    IF ~body.proof.present \/ ~body.publicSignals.present \/ ~Truthy(body.vkey)
    THEN [status |-> 400, parseable |-> TRUE, verified |-> Absent,
          timestamp |-> Absent,
          error |-> "Missing required fields: proof, publicSignals, or vkey"]
    ELSE IF ~Truthy(body.proof.pi_a) \/ ~Truthy(body.proof.pi_b)
            \/ ~Truthy(body.proof.pi_c)
    THEN [status |-> 400, parseable |-> TRUE, verified |-> Absent,
          timestamp |-> Absent, error |-> "Invalid proof structure"]
    ELSE NoDelegateResponse

\* verify.js, after groth16.verify returned or threw.
ServiceAnswer(outcome) ==
    IF outcome = "throw"
    THEN [status |-> 500, parseable |-> TRUE, verified |-> "false",
          timestamp |-> Absent, error |-> "Verification failed"]
    ELSE [status |-> 200, parseable |-> TRUE, verified |-> outcome,
          timestamp |-> "delegate_time", error |-> Absent]

\* ------------------------------------------ verify-zk-proof, responses
StructuralNote ==
    "Structural validation only; provide verifierUrl and vkey for full verification."

NoResponse ==
    [status |-> 0, verified |-> FALSE, error |-> Absent, timestamp |-> Absent,
     threshold |-> Absent, commitment |-> Absent, note |-> Absent,
     dstatus |-> 0]

\* publicSignals[i] of JavaScript (i counted from 0): undefined past the end.
SignalAt(publicSignals, i) ==
    IF i + 1 <= Len(publicSignals.arr) THEN publicSignals.arr[i + 1] ELSE Absent

\* The structure check without its test of pi_c.
ProofStructureOkMutantSkipsPiC(proof) ==
    /\ proof.present
    /\ Truthy(proof.pi_a) /\ Truthy(proof.pi_b)

\* if (!proof || !proof.pi_a || !proof.pi_b || !proof.pi_c) is not taken.
ProofStructureOk(proof) ==
    /\ proof.present
    /\ Truthy(proof.pi_a) /\ Truthy(proof.pi_b) /\ Truthy(proof.pi_c)

\* The signals check with the bound off by one.
PublicSignalsOkMutantOneSignal(publicSignals) ==
    publicSignals.present /\ Len(publicSignals.arr) >= 1

\* if (!publicSignals || publicSignals.length < 2) is not taken.
PublicSignalsOk(publicSignals) ==
    publicSignals.present /\ Len(publicSignals.arr) >= 2

InvalidProofResponse ==
    [NoResponse EXCEPT !.status = 400, !.verified = FALSE,
                       !.error = "Invalid proof structure"]

InvalidSignalsResponse ==
    [NoResponse EXCEPT !.status = 400, !.verified = FALSE,
                       !.error = "Invalid public signals"]

\* The forwarding condition without its test of vkey.
ShouldForwardMutantUrlOnly(request) == Truthy(request.verifierUrl)

\* if (verifierUrl && vkey)
ShouldForward(request) == Truthy(request.verifierUrl) /\ Truthy(request.vkey)

\* The fallback without its note.
StructuralFallbackResponseMutantNoNote(publicSignals) ==
    [NoResponse EXCEPT !.status = 200, !.verified = TRUE,
                       !.threshold = SignalAt(publicSignals, 0),
                       !.commitment = SignalAt(publicSignals, 1)]

\* The fallback labelling the last signal as the commitment.
StructuralFallbackResponseMutantLastSignal(publicSignals) ==
    [NoResponse EXCEPT !.status = 200, !.verified = TRUE,
                       !.threshold = SignalAt(publicSignals, 0),
                       !.commitment = SignalAt(publicSignals,
                                               Len(publicSignals.arr) - 1),
                       !.note = StructuralNote]

\* The fallback at the end of the handler.
StructuralFallbackResponse(publicSignals) ==
    [NoResponse EXCEPT !.status = 200, !.verified = TRUE,
                       !.threshold = SignalAt(publicSignals, 0),
                       !.commitment = SignalAt(publicSignals, 1),
                       !.note = StructuralNote]

\* The catch answering as if the delegate had rejected the proof.
DelegateUnreachableResponseMutantRejects(message) ==
    [NoResponse EXCEPT !.status = 200, !.verified = FALSE]

\* The catch around the delegate call: fetch rejected (aborted by the timer,
\* or a network failure).
DelegateUnreachableResponse(message) ==
    [NoResponse EXCEPT !.status = 502, !.verified = FALSE, !.error = message]

\* The delegate's answer read as Boolean(data) instead of Boolean(data?.verified).
DelegateResultResponseMutantIgnoresVerified(publicSignals, d) ==
    LET data == IF d.parseable THEN d
                ELSE [d EXCEPT !.verified = Absent, !.timestamp = Absent,
                               !.error = Absent]
        ok == d.status >= 200 /\ d.status <= 299
    IN  IF ~ok
        THEN [NoResponse EXCEPT !.status = 502, !.verified = FALSE,
                                !.error = JsOr(data.error, "External verifier failed"),
                                !.dstatus = d.status]
        ELSE [NoResponse EXCEPT !.status = 200,
                                !.verified = TRUE,
                                !.timestamp = JsOr(data.timestamp, "edge_time"),
                                !.threshold = SignalAt(publicSignals, 0),
                                !.commitment = SignalAt(publicSignals, 1)]

\* A rejection by the delegate degraded to the structural fallback.
DelegateResultResponseMutantDegrades(publicSignals, d) ==
    LET data == IF d.parseable THEN d
                ELSE [d EXCEPT !.verified = Absent, !.timestamp = Absent,
                               !.error = Absent]
        ok == d.status >= 200 /\ d.status <= 299
    IN  IF ~ok
        THEN [NoResponse EXCEPT !.status = 502, !.verified = FALSE,
                                !.error = JsOr(data.error, "External verifier failed"),
                                !.dstatus = d.status]
        ELSE IF ~JsBoolean(data.verified)
        THEN StructuralFallbackResponse(publicSignals)
        ELSE [NoResponse EXCEPT !.status = 200,
                                !.verified = JsBoolean(data.verified),
                                !.timestamp = JsOr(data.timestamp, "edge_time"),
                                !.threshold = SignalAt(publicSignals, 0),
                                !.commitment = SignalAt(publicSignals, 1)]

\* The two labelled signals taken from each other's index.
DelegateResultResponseMutantSwapsSignals(publicSignals, d) ==
    LET data == IF d.parseable THEN d
                ELSE [d EXCEPT !.verified = Absent, !.timestamp = Absent,
                               !.error = Absent]
        ok == d.status >= 200 /\ d.status <= 299
    IN  IF ~ok
        THEN [NoResponse EXCEPT !.status = 502, !.verified = FALSE,
                                !.error = JsOr(data.error, "External verifier failed"),
                                !.dstatus = d.status]
        ELSE [NoResponse EXCEPT !.status = 200,
                                !.verified = JsBoolean(data.verified),
                                !.timestamp = JsOr(data.timestamp, "edge_time"),
                                !.threshold = SignalAt(publicSignals, 1),
                                !.commitment = SignalAt(publicSignals, 0)]

\* The handler after const data = await resp.json().catch(() => ({})).
DelegateResultResponse(publicSignals, d) ==
    LET data == IF d.parseable THEN d
                ELSE [d EXCEPT !.verified = Absent, !.timestamp = Absent,
                               !.error = Absent]
        ok == d.status >= 200 /\ d.status <= 299
    IN  IF ~ok
        THEN [NoResponse EXCEPT !.status = 502, !.verified = FALSE,
                                !.error = JsOr(data.error, "External verifier failed"),
                                !.dstatus = d.status]
        ELSE [NoResponse EXCEPT !.status = 200,
                                !.verified = JsBoolean(data.verified),
                                !.timestamp = JsOr(data.timestamp, "edge_time"),
                                !.threshold = SignalAt(publicSignals, 0),
                                !.commitment = SignalAt(publicSignals, 1)]

VerifyRequests ==
    [proof : Proofs, publicSignals : PublicSignalsDomain,
     vkey : VKeys, verifierUrl : VerifierUrls]

\* ------------------------------- verify-zk-proof, as a function of its
\* request, of how the delegate call ended and of the handler's clock
\* new Date().toISOString() at clock reading ms.
ToISOString(ms) == "T+" \o ToString(ms) \o "ms"

Clocks == 0..MaxClock

\* The answers the verifier service can give to a forwarded body.
ServiceReplies(body) ==
    LET invalid == ServiceValidate(body)
    IN  IF invalid.status = 400
        THEN {invalid}
        ELSE {ServiceAnswer(outcome) :
                outcome \in Groth16Outcomes(body.vkey, body.publicSignals, body.proof)}

NoDelegateEnd == [how |-> "none", d |-> NoDelegateResponse]

\* The ways the delegate call of a request can end: not made, aborted by the
\* timer, failed, answered by the verifier service, or answered by something
\* else with a body that is not JSON.
DelegateEnds(r) ==
    IF ~(ProofStructureOk(r.proof) /\ PublicSignalsOk(r.publicSignals)
         /\ ShouldForward(r))
    THEN {NoDelegateEnd}
    ELSE {[how |-> "timeout", d |-> NoDelegateResponse],
          [how |-> "unreachable", d |-> NoDelegateResponse]}
         \cup {[how |-> "answered", d |-> d] :
                 d \in ServiceReplies([proof |-> r.proof,
                                       publicSignals |-> r.publicSignals,
                                       vkey |-> r.vkey])}
         \cup {[how |-> "answered", d |-> [NoDelegateResponse EXCEPT !.status = status]] :
                 status \in {200, 503}}

\* The response of the handler, with the timestamp it takes from its own
\* clock left as "edge_time".
HandlerResponse(r, end) ==
    IF ~ProofStructureOk(r.proof) THEN InvalidProofResponse
    ELSE IF ~PublicSignalsOk(r.publicSignals) THEN InvalidSignalsResponse
    ELSE IF ShouldForward(r)
    THEN IF end.how = "timeout"
         THEN DelegateUnreachableResponse("The signal has been aborted")
         ELSE IF end.how = "unreachable"
         THEN DelegateUnreachableResponse("error sending request")
         ELSE DelegateResultResponse(r.publicSignals, end.d)
    ELSE StructuralFallbackResponse(r.publicSignals)

\* The handler never reading its clock.
OutcomeMutantNoClock(r, end, now) == HandlerResponse(r, end)

\* data?.timestamp || new Date().toISOString(): the clock is read when the
\* delegate's answer carries no timestamp.
Outcome(r, end, now) ==
    LET resp == HandlerResponse(r, end)
    IN  IF resp.timestamp = "edge_time"
        THEN [resp EXCEPT !.timestamp = ToISOString(now)]
        ELSE resp

NoCall ==
    [request |-> [proof |-> [present |-> FALSE, pi_a |-> Absent,
                             pi_b |-> Absent, pi_c |-> Absent],
                  publicSignals |-> [present |-> FALSE, arr |-> <<>>],
                  vkey |-> "null", verifierUrl |-> "undefined"],
     delegate |-> NoDelegateEnd, now |-> 0, response |-> NoResponse]

Call(r, end, now) ==
    [request |-> r, delegate |-> end, now |-> now,
     response |-> Outcome(r, end, now)]

NoRequest ==
    [proof |-> [present |-> FALSE, pi_a |-> Absent, pi_b |-> Absent, pi_c |-> Absent],
     publicSignals |-> [present |-> FALSE, arr |-> <<>>],
     vkey |-> "null", verifierUrl |-> "undefined"]

\* --------------------------------------------------- send-message
\* Math.abs(now - timestamp) > 5 * 60 * 1000
ReplayWindowMs == 5 * 60 * 1000

\* README, Security Verification Chain: "Timestamp Check: Prevents replay
\* attacks (15-second window)".
DocumentedWindowMs == 15 * 1000

Abs(x) == IF x < 0 THEN -x ELSE x

\* now - timestamp of a request, in milliseconds.
ClockDeltas == {0, 15001, ReplayWindowMs, ReplayWindowMs + 1, -(ReplayWindowMs + 1)}

\* The JSON-RPC answer to getTransaction: no result, or the transaction with
\* its first account key and the text of its memo instruction ("none": the
\* transaction has no memo instruction).
TxDatas ==
    {[found |-> FALSE, signer |-> "w1", memo |-> "none"]}
    \cup [found : {TRUE}, signer : Wallets, memo : {"none"} \cup MessageHashes]

\* token_requirements row present or not, and the verify-token-balance answer.
BalanceChecks == {"error", "hasAccess", "noAccess"}

NoSmResponse == [status |-> 0, error |-> Absent, success |-> FALSE]

SmError(status, error) == [status |-> status, error |-> error, success |-> FALSE]

\* The checks of the handler before the proof is looked at: the response that
\* ends the request, or NoSmResponse when all of them pass.
SmAuthenticate(walletAddress, messageHash, delta, txData, tokenRequirements, balanceCheck) ==
    IF ~txData.found
    THEN SmError(401, "Transaction not found on blockchain")
    ELSE IF txData.signer # walletAddress
    THEN SmError(401, "Transaction not signed by claimed wallet")
    ELSE IF txData.memo # "none" /\ txData.memo # messageHash
    THEN SmError(401, "Transaction memo does not match message hash")
    ELSE IF Abs(delta) > ReplayWindowMs
    THEN SmError(401, "Timestamp expired - please try again")
    ELSE IF tokenRequirements /\ balanceCheck = "error"
    THEN SmError(500, "Failed to verify token balance")
    ELSE IF tokenRequirements /\ balanceCheck = "noAccess"
    THEN SmError(403, "Insufficient token balance")
    ELSE NoSmResponse

\* What the token gate did for a request whose checks ended with `ended`:
\* "none" when an earlier check rejected it, "skipped" when there is no
\* token_requirements row and verify-token-balance is not invoked, else the
\* answer of verify-token-balance.
TokenGateOf(ended, tokenRequirements, balanceCheck) ==
    IF ended.status = 401 THEN "none"
    ELSE IF ~tokenRequirements THEN "skipped"
    ELSE IF balanceCheck = "hasAccess" THEN "passed"
    ELSE IF balanceCheck = "noAccess" THEN "failed"
    ELSE "error"

\* supabase.storage.from('zkp').download('verification_key.json'): no data
\* (no object, or the download failed), an object holding the key, or an
\* object that is not JSON.
VkeyDownloads == {"missing", "key", "malformed"}

\* The key load yielding a key whatever the download gave.
ParsedVkeyMutantAlwaysKey(vkeyData) == "vk"

\* let vkey = null; if (vkeyData) { vkey = JSON.parse(await vkeyData.text()) }
\* for a download that did not give malformed JSON.
ParsedVkey(vkeyData) == IF vkeyData = "key" THEN "vk" ELSE "null"

\* The send-message handlers the runtime runs at the same time.
Handlers == {"a", "b", "c"}

\* A key load that awaits a download another handler has in flight.
KeyLoadDownloadsMutantSingleFlight(othersDownloading) == ~othersDownloading

\* Whether a key load issues a storage download of its own: the handler
\* awaits download() whenever it reaches the load, whatever other handlers do.
KeyLoadDownloads(othersDownloading) == TRUE

\* proofData of a request.  publicInputs is read only when publicSignals is
\* missing: "undefined", or an object with threshold and commitment.
PublicInputsDomain ==
    {[present |-> FALSE, threshold |-> "1", commitment |-> "1"]}
    \cup [present : {TRUE}, threshold : SignalVals, commitment : SignalVals]

ProofDatas ==
    {pd \in [proof : Proofs, publicSignals : PublicSignalsDomain,
             publicInputs : PublicInputsDomain] :
        pd.publicSignals.present =>
            pd.publicInputs = [present |-> FALSE, threshold |-> "1", commitment |-> "1"]}

\* proofData.publicSignals || [publicInputs.threshold, publicInputs.commitment]
SmPublicSignals(proofData) ==
    IF proofData.publicSignals.present
    THEN proofData.publicSignals
    ELSE [present |-> TRUE,
          arr |-> <<proofData.publicInputs.threshold,
                    proofData.publicInputs.commitment>>]

\* An invoke that reports an error only for a 5xx response.
InvokeErrorMutantOnly5xx(status) == status >= 500

\* supabase.functions.invoke('verify-zk-proof', ...): error is set for every
\* response whose status is not 2xx, and data for a 2xx response.
InvokeError(status) == ~(status >= 200 /\ status <= 299)

\* let isValidProof = true; neither branch of the if that follows assigns it.
IsValidProof(cryptographicVerification, verifierUrl) == TRUE

\* The inputs of SmAuthenticate.
AuthInputs ==
    [walletAddress : Wallets, messageHash : MessageHashes, delta : ClockDeltas,
     txData : TxDatas, tokenRequirements : BOOLEAN, balanceCheck : BalanceChecks]

NoAuthInput ==
    [walletAddress |-> "w1", messageHash |-> "h1", delta |-> 0,
     txData |-> [found |-> FALSE, signer |-> "w1", memo |-> "none"],
     tokenRequirements |-> FALSE, balanceCheck |-> "error"]

\* ------------------------------------------------------ log-to-solana
\* const maxAttempts = 3
MaxAttempts == 3

MessageIds == {"m1", "m2"}
LogSignatures == {"sigA", "sigB"}

NoLogRequest == [messageId |-> "m1", transactionSignature |-> "sigA"]

\* What a getTransaction call gives the handler: a JSON-RPC error, a null
\* result (the transaction is not confirmed yet), a result, or an exception
\* (fetch rejects, or the body is not JSON).
RpcAnswers == {"error", "pending", "result", "throw"}

\* txData?.result is truthy.
HasResult(data) == data = "result"

\* A wait after every attempt, the last one too.
ShouldWaitMutantAlways(n) == TRUE

\* if (attempts < maxAttempts) before the 2 s wait.
ShouldWait(n) == n < MaxAttempts

\* The loop test: while (attempts < maxAttempts && !txData?.result).
LoopContinues(n, data) == n < MaxAttempts /\ ~HasResult(data)

\* ------------------------------------------------------- tokenGating
\* The largest uiAmount of a token account, and the most token accounts a
\* wallet has for the mint.
MaxBalance == 2
MaxAccounts == 2

\* SOLANA_RPC_ENDPOINTS.length
EndpointCount == 2

\* const maxRetries = 2
MaxRetries == 2

\* The callers of checkTokenGating: the useTokenBalance hook and Chat.tsx.
Callers == {"hook", "chat"}

BoundedSeq(S, n) == UNION {[1..k -> S] : k \in 0..n}

\* tokenAccounts.value of a successful getParsedTokenAccountsByOwner: the
\* uiAmount of each token account of the wallet for the mint.
TokenAccounts == BoundedSeq(0..MaxBalance, MaxAccounts)

Balances == 0..(MaxAccounts * MaxBalance)

RECURSIVE SumAmounts(_)
SumAmounts(accounts) ==
    IF accounts = <<>> THEN 0
    ELSE Head(accounts) + SumAmounts(Tail(accounts))

\* 0 if tokenAccounts.value.length === 0, else the reduce over the accounts.
TotalBalance(accounts) ==
    IF Len(accounts) = 0 THEN 0 ELSE SumAmounts(accounts)

\* let lastError: Error | null = null
NoError == [attempt |-> 0, endpoint |-> 0]

NoTokenResult == [kind |-> "none", balance |-> 0, error |-> NoError]

\* The earlier getSPLTokenBalance: catch (error) { return 0 }.
ExhaustedMutantZero(error) == [kind |-> "return", balance |-> 0, error |-> NoError]

\* throw lastError || new Error(...) after the loop.
Exhausted(error) == [kind |-> "throw", balance |-> 0, error |-> error]

\* if (attempt < maxRetries - 1) in the catch.
RetriesLeft(n) == n < MaxRetries - 1

\* ---------------------------------------------------- checkTokenGating
\* threshold_amount of the token_requirements row as a reader finds it.
Thresholds == 0..MaxBalance

\* The row as verify-token-balance finds it: -1 stands for no row.
NoRow == 0 - 1
ServerRequirements == {NoRow} \cup Thresholds

\* verify-token-balance: { balance, required, hasAccess }.
VerifyTokenBalanceResponse(totalBalance, requirements) ==
    LET requiredThreshold == IF requirements = NoRow THEN 0 ELSE requirements
    IN  [kind |-> "data", balance |-> totalBalance, required |-> requiredThreshold,
         hasAccess |-> totalBalance >= requiredThreshold]

\* What supabase.functions.invoke('verify-token-balance') gives: an error
\* (a non-2xx answer or no answer), no data, or the response of the function.
BackendAnswers ==
    {[kind |-> k, balance |-> 0, required |-> 0, hasAccess |-> FALSE] :
        k \in {"error", "nodata"}}
    \cup {VerifyTokenBalanceResponse(b, r) : b \in 0..MaxBalance, r \in ServerRequirements}

\* What getSPLTokenBalance gives the fallback: a balance, or an exception.
FallbackOutcomes ==
    {[kind |-> "throw", balance |-> 0]}
    \cup {[kind |-> "return", balance |-> b] : b \in 0..MaxBalance}

GateInputs ==
    [configured : BOOLEAN, threshold : Thresholds, backend : BackendAnswers,
     fallback : FallbackOutcomes]

NoGateInput ==
    [configured |-> FALSE, threshold |-> 0,
     backend |-> [kind |-> "error", balance |-> 0, required |-> 0, hasAccess |-> FALSE],
     fallback |-> [kind |-> "throw", balance |-> 0]]

GateResults ==
    [kind : {"none", "return", "throw"}, path : {"none", "backend", "fallback"},
     allowed : BOOLEAN, balance : 0..MaxBalance, required : Thresholds]

NoGateResult ==
    [kind |-> "none", path |-> "none", allowed |-> FALSE, balance |-> 0,
     required |-> 0]

GateThrow(path) ==
    [kind |-> "throw", path |-> path, allowed |-> FALSE, balance |-> 0,
     required |-> 0]

\* getSPLTokenBalanceViaEdge returns { balance, required, hasAccess }, and
\* throws if invoke gave an error or no data.
BackendSucceeds(backend) == backend.kind = "data"

\* checkTokenGating: it throws without requirements; the backend result if
\* the backend call succeeds, with required: backend.required ||
\* requirements.threshold_amount; else the client RPC result, or its
\* exception.
CheckTokenGating(in) ==
    IF ~in.configured
    THEN GateThrow("none")
    ELSE IF BackendSucceeds(in.backend)
    THEN [kind |-> "return", path |-> "backend",
          allowed |-> in.backend.hasAccess,
          balance |-> in.backend.balance,
          required |-> IF in.backend.required # 0 THEN in.backend.required
                       ELSE in.threshold]
    ELSE IF in.fallback.kind = "throw"
    THEN GateThrow("fallback")
    ELSE [kind |-> "return", path |-> "fallback",
          allowed |-> in.fallback.balance >= in.threshold,
          balance |-> in.fallback.balance,
          required |-> in.threshold]

\* ------------------------------------------------- useRealtimeMessages
\* blockchain_tx_hash of a row: null, or the signature sendMessage got.
HookHashes == {"null", "sigA"}

\* A row of the messages table as the hook sees it.
HookRows == [id : MessageIds, blockchain_tx_hash : HookHashes]

\* current.some((m) => m.id === id)
HasId(list, id) == \E i \in 1..Len(list) : list[i].id = id

\* Entries of a list with the id.
CountId(list, id) == Cardinality({i \in 1..Len(list) : list[i].id = id})

\* current.map((msg) => msg.id === row.id ? row : msg)
ReplaceById(list, row) ==
    [i \in 1..Len(list) |-> IF list[i].id = row.id THEN row ELSE list[i]]

\* Merge any pending optimistic tx hash: if (!blockchain_tx_hash && pendingTx).
MergePending(row, pending) ==
    IF row.blockchain_tx_hash = "null" /\ pending[row.id] # "null"
    THEN [row EXCEPT !.blockchain_tx_hash = pending[row.id]]
    ELSE row

\* pendingTxRef.current after the merge: delete pendingTxRef.current[id].
PendingAfterMerge(row, pending) ==
    IF row.blockchain_tx_hash = "null" /\ pending[row.id] # "null"
    THEN [pending EXCEPT ![row.id] = "null"]
    ELSE pending

\* The event as the subscribed hook gets it; nothing is sent before the join.
Publish(joined, events, event, row) ==
    IF joined THEN Append(events, [event |-> event, new |-> row]) ELSE events

\* -------------------------------------------------------------- state
VARIABLES
    vpc,            \* verify-zk-proof: "idle", "fetching", "reading", "done"
    vcaller,        \* who sent the request: "none", "direct", "send-message"
    request,        \* the body of the verify-zk-proof request
    response,       \* the response of verify-zk-proof
    dresp,          \* the delegate's HTTP response, once fetch resolved
    dend,           \* how the delegate call ended: "none", "pending",
                    \* "timeout", "unreachable", "answered"
    timerArmed,     \* the 10 s abort timer is set and not cleared
    delegateCalls,  \* fetch calls to verifierUrl made for this request
    cryptoChecks,   \* groth16.verify runs made for this request
    groth16Result,  \* what groth16.verify returned: "none", "true", "false", "throw"
    smpc,           \* send-message: "idle", "authenticated", "verifying", "done"
    smreq,          \* walletAddress and transactionSignature of the request
    smresp,         \* the response of send-message
    messages,       \* the rows of the messages table, in insertion order
    smclock,        \* now - timestamp, while the handler holds the two
    tokenGate,      \* the token gate of the request: "none", "skipped",
                    \* "passed", "failed", "error"
    vkeyLoad,       \* what the key download of the request gave: "none",
                    \* "missing", "key", "malformed"
    kpc,            \* key load of each concurrent send-message handler:
                    \* "idle", "downloading", "loaded", "failed"
    kvkey,          \* the vkey each handler holds after its load
    keyLoads,       \* key loads started since the process started
    keyFetches,     \* storage downloads issued since the process started
    callA,          \* a call of verify-zk-proof and its outcome
    callB,          \* a second call, compared with the first
    authIn,         \* the inputs of the checks of send-message before the proof
    authOut,        \* the response that ended the request, or NoSmResponse
    lpc,            \* log-to-solana: "idle", "calling", "waiting",
                    \* "updating", "done"
    lreq,           \* messageId and transactionSignature of the request
    attempts,       \* attempts of the verification loop
    ltxData,        \* the last getTransaction answer: "null", "error", "pending",
                    \* "result"
    lresp,          \* the status of the response of log-to-solana, 0 before it
    rows,           \* blockchain_tx_hash of each message row
    rpcCalls,       \* getTransaction calls made for the request
    waits,          \* 2 s waits started for the request
    currentEndpointIndex,\* tokenGating.ts: the module-level endpoint index
    tpc,            \* each caller of getSPLTokenBalance: "idle", "querying", "waiting",
                    \* "returned", "thrown"
    attempt,        \* each caller's loop variable
    connection,     \* the endpoint index of each caller's connection
    lastError,      \* each caller's lastError: the attempt and endpoint that failed
    outcomes,       \* each caller's attempts so far, in order
    tresult,        \* what each call returned or threw
    gateIn,         \* checkTokenGating applied: what its calls answered
    gateOut,        \* checkTokenGating applied: what it returned
    hookMessages,   \* useRealtimeMessages: the local messages list
    pendingTxRef,   \* pendingTxRef.current: message id -> pending tx hash
    fetchpc,        \* fetchMessages: "sent", "fetched", "applied", "failed"
    fetchData,      \* the rows the select of fetchMessages found
    subscribed,     \* the channel is joined
    channel,        \* postgres_changes events on their way to the hook
    dbMessages,     \* the messages table, in created_at order
    sendpc,         \* sendMessage: "idle", "signing", "logging"
    sendId,         \* the id send-message returned to sendMessage
    handled         \* ids whose INSERT event the hook has handled

vars == <<vpc, vcaller, request, response, dresp, dend, timerArmed,
          delegateCalls, cryptoChecks, groth16Result, smpc, smreq, smresp,
          messages, smclock, tokenGate, vkeyLoad, kpc, kvkey, keyLoads,
          keyFetches, callA, callB, authIn, authOut, lpc, lreq, attempts,
          ltxData, lresp, rows, rpcCalls, waits, currentEndpointIndex, tpc,
          attempt, connection, lastError, outcomes, tresult, gateIn,
          gateOut, hookMessages, pendingTxRef, fetchpc, fetchData,
          subscribed, channel, dbMessages, sendpc, sendId, handled>>

verifyVars == <<vpc, vcaller, request, response, dresp, dend, timerArmed,
                delegateCalls, cryptoChecks, groth16Result>>

smVars == <<smpc, smreq, smresp, messages, smclock, tokenGate, vkeyLoad>>

keyVars == <<kpc, kvkey, keyLoads, keyFetches>>

cmpVars == <<callA, callB>>

authVars == <<authIn, authOut>>

logVars == <<lpc, lreq, attempts, ltxData, lresp, rows, rpcCalls, waits>>

tokenVars == <<currentEndpointIndex, tpc, attempt, connection, lastError,
               outcomes, tresult>>

gateVars == <<gateIn, gateOut>>

hookVars == <<hookMessages, pendingTxRef, fetchpc, fetchData, subscribed,
              channel, dbMessages, sendpc, sendId, handled>>

\* What the two edge functions leave alone: the state of the other
\* specifications.
otherVars == <<keyVars, cmpVars, authVars, logVars, tokenVars, gateVars,
               hookVars>>

\* Everything but the key loads.
notKeyVars == <<verifyVars, smVars, cmpVars, authVars, logVars, tokenVars,
                gateVars, hookVars>>

\* Everything but the two calls compared.
notCmpVars == <<verifyVars, smVars, keyVars, authVars, logVars, tokenVars,
                gateVars, hookVars>>

\* Everything but the authentication checks applied.
notAuthVars == <<verifyVars, smVars, keyVars, cmpVars, logVars, tokenVars,
                 gateVars, hookVars>>

\* Everything but log-to-solana.
notLogVars == <<verifyVars, smVars, keyVars, cmpVars, authVars, tokenVars,
                gateVars, hookVars>>

\* Everything but getSPLTokenBalance.
notTokenVars == <<verifyVars, smVars, keyVars, cmpVars, authVars, logVars,
                  gateVars, hookVars>>

\* Everything but checkTokenGating.
notGateVars == <<verifyVars, smVars, keyVars, cmpVars, authVars, logVars,
                 tokenVars, hookVars>>

\* Everything but useRealtimeMessages.
notHookVars == <<verifyVars, smVars, keyVars, cmpVars, authVars, logVars,
                 tokenVars, gateVars>>

NoSmRequest == [walletAddress |-> "w1", transactionSignature |-> "tx1"]

\* The values the state takes: the fields of the two handlers and the table.
TypeOK ==
    /\ vpc \in {"idle", "fetching", "reading", "done"}
    /\ vcaller \in {"none", "direct", "send-message"}
    /\ request \in VerifyRequests
    /\ response.status \in {0, 200, 400, 502}
    /\ response.verified \in BOOLEAN
    /\ dresp.status \in {0, 200, 400, 500, 503}
    /\ dend \in {"none", "pending", "timeout", "unreachable", "answered"}
    /\ timerArmed \in BOOLEAN
    /\ delegateCalls \in 0..1
    /\ cryptoChecks \in 0..1
    /\ groth16Result \in {"none", "true", "false", "throw"}
    /\ smpc \in {"idle", "authenticated", "verifying", "done"}
    /\ smreq \in [walletAddress : Wallets, transactionSignature : TxSignatures]
    /\ smresp.status \in {0, 200, 401, 403, 500}
    /\ messages \in SeqsUpTo([wallet_address : Wallets,
                              blockchain_tx_hash : TxSignatures,
                              verified : BOOLEAN], MaxReplayMessages)
    /\ smclock \in ClockDeltas
    /\ tokenGate \in {"none", "skipped", "passed", "failed", "error"}
    /\ vkeyLoad \in {"none"} \cup VkeyDownloads
    /\ kpc \in [Handlers -> {"idle", "downloading", "loaded", "failed"}]
    /\ kvkey \in [Handlers -> VKeys]
    /\ keyLoads \in 0..MaxKeyFetches
    /\ keyFetches \in 0..MaxKeyFetches
    /\ callA.request \in VerifyRequests /\ callA.now \in Clocks
    /\ callB.request \in VerifyRequests /\ callB.now \in Clocks
    /\ authIn \in AuthInputs
    /\ authOut.status \in {0, 401, 403, 500}
    /\ lpc \in {"idle", "calling", "waiting", "updating", "done"}
    /\ lreq \in [messageId : MessageIds, transactionSignature : LogSignatures]
    /\ attempts \in 0..MaxAttempts
    /\ ltxData \in {"null", "error", "pending", "result"}
    /\ lresp \in {0, 200, 202, 400, 500}
    /\ rows \in [MessageIds -> {"null"} \cup LogSignatures]
    /\ rpcCalls \in 0..MaxAttempts
    /\ waits \in 0..MaxAttempts
    /\ currentEndpointIndex \in 0..(EndpointCount - 1)
    /\ tpc \in [Callers -> {"idle", "querying", "waiting", "returned", "thrown"}]
    /\ attempt \in [Callers -> 0..(MaxRetries - 1)]
    /\ connection \in [Callers -> 0..(EndpointCount - 1)]
    /\ lastError \in [Callers -> [attempt : 0..MaxRetries, endpoint : 0..(EndpointCount - 1)]]
    /\ outcomes \in [Callers -> BoundedSeq([ok : BOOLEAN, balance : Balances], MaxRetries)]
    /\ tresult \in [Callers -> [kind : {"none", "return", "throw"}, balance : Balances,
                              error : [attempt : 0..MaxRetries, endpoint : 0..(EndpointCount - 1)]]]
    /\ gateIn \in GateInputs
    /\ gateOut \in GateResults
    /\ hookMessages \in BoundedSeq(HookRows, 2 * Cardinality(MessageIds))
    /\ pendingTxRef \in [MessageIds -> HookHashes]
    /\ fetchpc \in {"sent", "fetched", "applied", "failed"}
    /\ fetchData \in BoundedSeq(HookRows, Cardinality(MessageIds))
    /\ subscribed \in BOOLEAN
    /\ channel \in BoundedSeq([event : {"INSERT", "UPDATE"}, new : HookRows], 2 * Cardinality(MessageIds))
    /\ dbMessages \in BoundedSeq(HookRows, Cardinality(MessageIds))
    /\ sendpc \in {"idle", "signing", "logging"}
    /\ sendId \in MessageIds
    /\ handled \subseteq MessageIds

Init ==
    /\ vpc = "idle"
    /\ vcaller = "none"
    /\ request = NoRequest
    /\ response = NoResponse
    /\ dresp = NoDelegateResponse
    /\ dend = "none"
    /\ timerArmed = FALSE
    /\ delegateCalls = 0
    /\ cryptoChecks = 0
    /\ groth16Result = "none"
    /\ smpc = "idle"
    /\ smreq = NoSmRequest
    /\ smresp = NoSmResponse
    /\ messages = <<>>
    /\ smclock = 0
    /\ tokenGate = "none"
    /\ vkeyLoad = "none"
    /\ kpc = [h \in Handlers |-> "idle"]
    /\ kvkey = [h \in Handlers |-> "null"]
    /\ keyLoads = 0
    /\ keyFetches = 0
    /\ callA = NoCall
    /\ callB = NoCall
    /\ authIn = NoAuthInput
    /\ authOut = NoSmResponse
    /\ lpc = "idle"
    /\ lreq = NoLogRequest
    /\ attempts = 0
    /\ ltxData = "null"
    /\ lresp = 0
    /\ rows = [m \in MessageIds |-> "null"]
    /\ rpcCalls = 0
    /\ waits = 0
    /\ currentEndpointIndex = 0
    /\ tpc = [c \in Callers |-> "idle"]
    /\ attempt = [c \in Callers |-> 0]
    /\ connection = [c \in Callers |-> 0]
    /\ lastError = [c \in Callers |-> NoError]
    /\ outcomes = [c \in Callers |-> <<>>]
    /\ tresult = [c \in Callers |-> NoTokenResult]
    /\ gateIn = NoGateInput
    /\ gateOut = NoGateResult
    /\ hookMessages = <<>>
    /\ pendingTxRef = [id \in MessageIds |-> "null"]
    /\ fetchpc = "sent"
    /\ fetchData = <<>>
    /\ subscribed = FALSE
    /\ channel = <<>>
    /\ dbMessages = <<>>
    /\ sendpc = "idle"
    /\ sendId = "m1"
    /\ handled = {}

\* ------------------------------------------- verify-zk-proof, handler
\* The handler from the request to its first await on the delegate, or to
\* its response when it answers without calling the delegate.
HandleRequest(r, caller) ==
    /\ vpc = "idle"
    /\ vcaller' = caller
    /\ request' = r
    /\ dresp' = NoDelegateResponse
    /\ cryptoChecks' = 0
    /\ groth16Result' = "none"
    /\ IF ~ProofStructureOk(r.proof)
       THEN /\ response' = InvalidProofResponse
            /\ vpc' = "done"
            /\ UNCHANGED <<dend, timerArmed, delegateCalls>>
       ELSE IF ~PublicSignalsOk(r.publicSignals)
       THEN /\ response' = InvalidSignalsResponse
            /\ vpc' = "done"
            /\ UNCHANGED <<dend, timerArmed, delegateCalls>>
       ELSE IF ShouldForward(r)
       THEN /\ response' = NoResponse
            /\ vpc' = "fetching"
            /\ dend' = "pending"
            /\ timerArmed' = TRUE
            /\ delegateCalls' = delegateCalls + 1
       ELSE /\ response' = StructuralFallbackResponse(r.publicSignals)
            /\ vpc' = "done"
            /\ UNCHANGED <<dend, timerArmed, delegateCalls>>

\* A client calls verify-zk-proof itself.
VerifyReceive ==
    /\ smpc = "idle"
    /\ \E r \in VerifyRequests : HandleRequest(r, "direct")
    /\ UNCHANGED smVars
    /\ UNCHANGED otherVars

\* The delegate is the verifier service: it validates the forwarded body
\* {proof, publicSignals, vkey}, runs groth16.verify and answers; fetch
\* resolves and the handler clears the timer.
DelegateRespond ==
    /\ vpc = "fetching"
    /\ LET body == [proof |-> request.proof,
                    publicSignals |-> request.publicSignals,
                    vkey |-> request.vkey]
           invalid == ServiceValidate(body)
       IN  IF invalid.status = 400
           THEN /\ dresp' = invalid
                /\ UNCHANGED <<cryptoChecks, groth16Result>>
           ELSE \E outcome \in Groth16Outcomes(body.vkey, body.publicSignals, body.proof) :
                    /\ dresp' = ServiceAnswer(outcome)
                    /\ cryptoChecks' = cryptoChecks + 1
                    /\ groth16Result' = outcome
    /\ vpc' = "reading"
    /\ dend' = "answered"
    /\ timerArmed' = FALSE
    /\ UNCHANGED <<vcaller, request, response, delegateCalls>>
    /\ UNCHANGED smVars
    /\ UNCHANGED otherVars

\* verifierUrl is served by something else (a proxy, an error page): fetch
\* resolves with a body that is not JSON.
DelegateRespondOther ==
    /\ vpc = "fetching"
    /\ \E status \in {200, 503} :
           dresp' = [NoDelegateResponse EXCEPT !.status = status]
    /\ vpc' = "reading"
    /\ dend' = "answered"
    /\ timerArmed' = FALSE
    /\ UNCHANGED <<vcaller, request, response, delegateCalls, cryptoChecks,
                   groth16Result>>
    /\ UNCHANGED smVars
    /\ UNCHANGED otherVars

\* No response within 10 s: the timer fires controller.abort(), fetch rejects
\* and the catch answers.
DelegateTimeout ==
    /\ vpc = "fetching"
    /\ timerArmed
    /\ timerArmed' = FALSE
    /\ dend' = "timeout"
    /\ response' = DelegateUnreachableResponse("The signal has been aborted")
    /\ vpc' = "done"
    /\ UNCHANGED <<vcaller, request, dresp, delegateCalls, cryptoChecks,
                   groth16Result>>
    /\ UNCHANGED smVars
    /\ UNCHANGED otherVars

\* The delegate cannot be reached: fetch rejects and the catch answers.
DelegateNetworkError ==
    /\ vpc = "fetching"
    /\ dend' = "unreachable"
    /\ response' = DelegateUnreachableResponse("error sending request")
    /\ vpc' = "done"
    /\ UNCHANGED <<vcaller, request, dresp, timerArmed, delegateCalls,
                   cryptoChecks, groth16Result>>
    /\ UNCHANGED smVars
    /\ UNCHANGED otherVars

\* resp.json() settled: the handler builds its response from the answer.
DelegateReadBody ==
    /\ vpc = "reading"
    /\ response' = DelegateResultResponse(request.publicSignals, dresp)
    /\ vpc' = "done"
    /\ UNCHANGED <<vcaller, request, dresp, dend, timerArmed, delegateCalls,
                   cryptoChecks, groth16Result>>
    /\ UNCHANGED smVars
    /\ UNCHANGED otherVars

\* The response reached the client that called verify-zk-proof itself.
VerifyReturn ==
    /\ vpc = "done"
    /\ vcaller = "direct"
    /\ vpc' = "idle"
    /\ vcaller' = "none"
    /\ request' = NoRequest
    /\ response' = NoResponse
    /\ dresp' = NoDelegateResponse
    /\ dend' = "none"
    /\ timerArmed' = FALSE
    /\ delegateCalls' = 0
    /\ cryptoChecks' = 0
    /\ groth16Result' = "none"
    /\ UNCHANGED smVars
    /\ UNCHANGED otherVars

\* ---------------------------------------------- send-message, handler
\* The handler from the request through the transaction lookup, the signer,
\* memo and timestamp checks and the token gate.
SmReceiveWithin(limit) ==
    /\ smpc = "idle"
    /\ vpc = "idle"
    /\ Len(messages) < limit
    /\ \E walletAddress \in Wallets, transactionSignature \in TxSignatures,
          messageHash \in MessageHashes, delta \in ClockDeltas,
          txData \in TxDatas, tokenRequirements \in BOOLEAN,
          balanceCheck \in BalanceChecks :
          LET ended == SmAuthenticate(walletAddress, messageHash, delta, txData,
                                      tokenRequirements, balanceCheck)
          IN  /\ smreq' = [walletAddress |-> walletAddress,
                           transactionSignature |-> transactionSignature]
              /\ smresp' = ended
              /\ smpc' = IF ended = NoSmResponse THEN "authenticated" ELSE "done"
              /\ smclock' = delta
              /\ tokenGate' = TokenGateOf(ended, tokenRequirements, balanceCheck)
    /\ UNCHANGED <<messages, vkeyLoad>>
    /\ UNCHANGED verifyVars
    /\ UNCHANGED otherVars

SmReceive == SmReceiveWithin(MaxMessages)

\* The handler loads the verification key and VERCEL_ZK_VERIFIER_URL, picks
\* the public signals and invokes verify-zk-proof.  JSON.parse of a key file
\* that is not JSON, and reading publicInputs.threshold of a request without
\* publicInputs, throw into the outer catch.
SmInvokeVerify ==
    /\ smpc = "authenticated"
    /\ \E proofData \in ProofDatas, vkeyData \in VkeyDownloads,
          verifierUrl \in VerifierUrls :
          /\ vkeyLoad' = vkeyData
          /\ IF vkeyData = "malformed"
             THEN /\ smresp' = SmError(500, "Unexpected token in JSON")
                  /\ smpc' = "done"
                  /\ UNCHANGED verifyVars
             ELSE IF ~proofData.publicSignals.present /\ ~proofData.publicInputs.present
             THEN /\ smresp' = SmError(500, "Cannot read properties of undefined")
                  /\ smpc' = "done"
                  /\ UNCHANGED verifyVars
             ELSE /\ HandleRequest(
                        [proof |-> proofData.proof,
                         publicSignals |-> SmPublicSignals(proofData),
                         vkey |-> ParsedVkey(vkeyData),
                         verifierUrl |-> verifierUrl],
                        "send-message")
                  /\ smpc' = "verifying"
                  /\ UNCHANGED smresp
    /\ smclock' = 0
    /\ UNCHANGED <<smreq, messages, tokenGate>>
    /\ UNCHANGED otherVars

\* supabase.functions.invoke returned: an error for a non-2xx response,
\* else the parsed body.  Then the insert, which the database may refuse.
SmAfterVerify ==
    /\ smpc = "verifying"
    /\ vpc = "done"
    /\ vcaller = "send-message"
    /\ LET zkError == InvokeError(response.status)
           cryptographicVerification == response.verified
           isValidProof == IsValidProof(cryptographicVerification, request.verifierUrl)
       IN  IF zkError
           THEN /\ smresp' = SmError(500, "Failed to verify zero-knowledge proof")
                /\ UNCHANGED messages
           ELSE \E dbError \in BOOLEAN :
                    IF dbError
                    THEN /\ smresp' = SmError(500, "Failed to store message")
                         /\ UNCHANGED messages
                    ELSE /\ smresp' = [status |-> 200, error |-> Absent,
                                       success |-> TRUE]
                         /\ messages' = Append(messages,
                                [wallet_address |-> smreq.walletAddress,
                                 blockchain_tx_hash |-> smreq.transactionSignature,
                                 verified |-> isValidProof])
    /\ smpc' = "done"
    /\ UNCHANGED <<smreq, smclock, tokenGate, vkeyLoad>>
    /\ UNCHANGED verifyVars
    /\ UNCHANGED otherVars

\* The response reached the client of send-message.
SmReturn ==
    /\ smpc = "done"
    /\ smpc' = "idle"
    /\ smreq' = NoSmRequest
    /\ smresp' = NoSmResponse
    /\ vpc' = "idle"
    /\ vcaller' = "none"
    /\ request' = NoRequest
    /\ response' = NoResponse
    /\ dresp' = NoDelegateResponse
    /\ dend' = "none"
    /\ timerArmed' = FALSE
    /\ delegateCalls' = 0
    /\ cryptoChecks' = 0
    /\ groth16Result' = "none"
    /\ smclock' = 0
    /\ tokenGate' = "none"
    /\ vkeyLoad' = "none"
    /\ UNCHANGED messages
    /\ UNCHANGED otherVars

Next ==
    \/ VerifyReceive
    \/ DelegateRespond
    \/ DelegateRespondOther
    \/ DelegateTimeout
    \/ DelegateNetworkError
    \/ DelegateReadBody
    \/ VerifyReturn
    \/ SmReceive
    \/ SmInvokeVerify
    \/ SmAfterVerify
    \/ SmReturn

Spec == Init /\ [][Next]_vars

\* ------------------------------- send-message, one transaction sent again
\* The two edge functions with room in the table for a second message.
ReplayReceive == SmReceiveWithin(MaxReplayMessages)

ReplayNext ==
    \/ VerifyReceive
    \/ DelegateRespond
    \/ DelegateRespondOther
    \/ DelegateTimeout
    \/ DelegateNetworkError
    \/ DelegateReadBody
    \/ VerifyReturn
    \/ ReplayReceive
    \/ SmInvokeVerify
    \/ SmAfterVerify
    \/ SmReturn

ReplaySpec == Init /\ [][ReplayNext]_vars

\* ------------------------- send-message, key loads of concurrent handlers
\* A handler reaches its key load and awaits
\* supabase.storage.from('zkp').download('verification_key.json').
KeyDownloadStart(h) ==
    /\ kpc[h] = "idle"
    /\ keyLoads < MaxKeyFetches
    /\ keyLoads' = keyLoads + 1
    /\ keyFetches' =
          IF KeyLoadDownloads(\E g \in Handlers \ {h} : kpc[g] = "downloading")
          THEN keyFetches + 1
          ELSE keyFetches
    /\ kpc' = [kpc EXCEPT ![h] = "downloading"]
    /\ UNCHANGED kvkey
    /\ UNCHANGED notKeyVars

\* The download settles and the handler parses what it got: no data leaves
\* vkey null, a key file gives the key, and JSON.parse of anything else
\* throws into the outer catch of the handler.
KeyDownloadEnd(h) ==
    /\ kpc[h] = "downloading"
    /\ \E vkeyData \in VkeyDownloads :
          IF vkeyData = "malformed"
          THEN /\ kpc' = [kpc EXCEPT ![h] = "failed"]
               /\ UNCHANGED kvkey
          ELSE /\ kpc' = [kpc EXCEPT ![h] = "loaded"]
               /\ kvkey' = [kvkey EXCEPT ![h] = ParsedVkey(vkeyData)]
    /\ UNCHANGED <<keyLoads, keyFetches>>
    /\ UNCHANGED notKeyVars

\* The request of the handler ends; its vkey is a local of the request.
KeyHandlerEnd(h) ==
    /\ kpc[h] \in {"loaded", "failed"}
    /\ kpc' = [kpc EXCEPT ![h] = "idle"]
    /\ kvkey' = [kvkey EXCEPT ![h] = "null"]
    /\ UNCHANGED <<keyLoads, keyFetches>>
    /\ UNCHANGED notKeyVars

KeyNext ==
    \E h \in Handlers :
        \/ KeyDownloadStart(h)
        \/ KeyDownloadEnd(h)
        \/ KeyHandlerEnd(h)

KeySpec == Init /\ [][KeyNext]_vars

\* ------------------------------------ verify-zk-proof, two calls compared
\* The same request is handled twice, the delegate call ending the same way
\* with the same answer, the second call not before the first.
CallTwice ==
    /\ callA = NoCall /\ callB = NoCall
    /\ \E r \in VerifyRequests, nowA \in Clocks, nowB \in Clocks :
          /\ nowA <= nowB
          /\ \E end \in DelegateEnds(r) :
                /\ callA' = Call(r, end, nowA)
                /\ callB' = Call(r, end, nowB)
    /\ UNCHANGED notCmpVars

\* Two arrays that agree at index 0 and 1 and differ after them.
DifferBeyondIndex1(arrA, arrB) ==
    /\ Len(arrA) >= 2 /\ Len(arrB) >= 2
    /\ arrA[1] = arrB[1] /\ arrA[2] = arrB[2]
    /\ arrA # arrB

\* Two requests that differ only in their public signals beyond index 1 are
\* handled at the same clock reading; the delegate call ends the same way for
\* both, the verifier service answering each on what was forwarded to it.
CallWithOtherSignals ==
    /\ callA = NoCall /\ callB = NoCall
    /\ \E r \in VerifyRequests, arrB \in SeqsUpTo(SignalVals, MaxSignals),
          now \in Clocks :
          /\ r.publicSignals.present
          /\ DifferBeyondIndex1(r.publicSignals.arr, arrB)
          /\ LET rB == [r EXCEPT !.publicSignals.arr = arrB]
             IN  \E endA \in DelegateEnds(r), endB \in DelegateEnds(rB) :
                    /\ \/ endA = endB
                       \/ /\ endA.how = "answered" /\ endA.d.parseable
                          /\ endB.how = "answered" /\ endB.d.parseable
                    /\ callA' = Call(r, endA, now)
                    /\ callB' = Call(rB, endB, now)
    /\ UNCHANGED notCmpVars

CompareNext ==
    \/ CallTwice
    \/ CallWithOtherSignals

CompareSpec == Init /\ [][CompareNext]_vars

\* ------------------------------ send-message, the checks as a function
\* The checks of send-message before the proof, applied to one request.
Authenticate ==
    /\ authIn = NoAuthInput /\ authOut = NoSmResponse
    /\ \E in \in AuthInputs :
          /\ authIn' = in
          /\ authOut' = SmAuthenticate(in.walletAddress, in.messageHash, in.delta,
                                       in.txData, in.tokenRequirements,
                                       in.balanceCheck)
    /\ UNCHANGED notAuthVars

AuthNext == Authenticate

AuthSpec == Init /\ [][AuthNext]_vars

\* ---------------------------------------------- log-to-solana, handler
\* while (attempts < maxAttempts && !txData?.result) is entered: attempts++
\* and the getTransaction call is sent.
LogAttempt ==
    /\ attempts' = attempts + 1
    /\ rpcCalls' = rpcCalls + 1
    /\ lpc' = "calling"

\* A request arrives; txData is null and attempts 0, so the loop is entered.
LogReceive ==
    /\ lpc = "idle"
    /\ \E messageId \in MessageIds, transactionSignature \in LogSignatures :
          lreq' = [messageId |-> messageId,
                   transactionSignature |-> transactionSignature]
    /\ attempts' = 1
    /\ rpcCalls' = 1
    /\ lpc' = "calling"
    /\ UNCHANGED <<ltxData, lresp, rows, waits>>
    /\ UNCHANGED notLogVars

\* The getTransaction call settles.  An exception leaves the loop for the
\* outer catch (500).  A result breaks out of the loop to the update.  An
\* error or a null result starts the 2 s wait if attempts < maxAttempts, and
\* otherwise the loop test fails and the handler answers 202.
LogRpcAnswer ==
    /\ lpc = "calling"
    /\ \E answer \in RpcAnswers :
          IF answer = "throw"
          THEN /\ lresp' = 500
               /\ lpc' = "done"
               /\ UNCHANGED <<ltxData, waits>>
          ELSE /\ ltxData' = answer
               /\ IF answer # "error" /\ HasResult(answer)
                  THEN /\ lpc' = "updating"
                       /\ UNCHANGED <<lresp, waits>>
                  ELSE IF ShouldWait(attempts)
                  THEN /\ lpc' = "waiting"
                       /\ waits' = waits + 1
                       /\ UNCHANGED lresp
                  ELSE IF LoopContinues(attempts, answer)
                  THEN /\ lpc' = "calling"
                       /\ UNCHANGED <<lresp, waits>>
                  ELSE IF ~HasResult(answer)
                  THEN /\ lresp' = 202
                       /\ lpc' = "done"
                       /\ UNCHANGED waits
                  ELSE /\ lpc' = "updating"
                       /\ UNCHANGED <<lresp, waits>>
    /\ UNCHANGED <<lreq, attempts, rpcCalls, rows>>
    /\ UNCHANGED notLogVars

\* The 2 s wait is over; the loop test runs again.
LogWaitDone ==
    /\ lpc = "waiting"
    /\ IF LoopContinues(attempts, ltxData)
       THEN /\ LogAttempt
            /\ UNCHANGED lresp
       ELSE IF ~HasResult(ltxData)
       THEN /\ lresp' = 202
            /\ lpc' = "done"
            /\ UNCHANGED <<attempts, rpcCalls>>
       ELSE /\ lpc' = "updating"
            /\ UNCHANGED <<lresp, attempts, rpcCalls>>
    /\ UNCHANGED <<lreq, ltxData, rows, waits>>
    /\ UNCHANGED notLogVars

\* update({ blockchain_tx_hash: transactionSignature }).eq('id', messageId)
\* settles: the database refused (500), or the row is updated (200).
LogUpdateDone ==
    /\ lpc = "updating"
    /\ \E dbError \in BOOLEAN :
          IF dbError
          THEN /\ lresp' = 500
               /\ UNCHANGED rows
          ELSE /\ lresp' = 200
               /\ rows' = [rows EXCEPT ![lreq.messageId] = lreq.transactionSignature]
    /\ lpc' = "done"
    /\ UNCHANGED <<lreq, attempts, ltxData, rpcCalls, waits>>
    /\ UNCHANGED notLogVars

\* The response reached the client of log-to-solana.
LogReturn ==
    /\ lpc = "done"
    /\ lpc' = "idle"
    /\ lreq' = NoLogRequest
    /\ attempts' = 0
    /\ ltxData' = "null"
    /\ lresp' = 0
    /\ rpcCalls' = 0
    /\ waits' = 0
    /\ UNCHANGED rows
    /\ UNCHANGED notLogVars

LogNext ==
    \/ LogReceive
    \/ LogRpcAnswer
    \/ LogWaitDone
    \/ LogUpdateDone
    \/ LogReturn

LogSpec == Init /\ [][LogNext]_vars

\* ------------------------- log-to-solana, the handler with one attempt
\* A request arrives and the one getTransaction call is sent.
LogSingleReceive ==
    /\ lpc = "idle"
    /\ \E messageId \in MessageIds, transactionSignature \in LogSignatures :
          lreq' = [messageId |-> messageId,
                   transactionSignature |-> transactionSignature]
    /\ rpcCalls' = 1
    /\ lpc' = "calling"
    /\ UNCHANGED <<attempts, ltxData, lresp, rows, waits>>
    /\ UNCHANGED notLogVars

\* The call settles: an exception goes to the catch (500), if (txData.error)
\* answers 400, and every other answer goes on to the update.
LogSingleRpcAnswer ==
    /\ lpc = "calling"
    /\ \E answer \in RpcAnswers :
          IF answer = "throw"
          THEN /\ lresp' = 500
               /\ lpc' = "done"
               /\ UNCHANGED ltxData
          ELSE /\ ltxData' = answer
               /\ IF answer = "error"
                  THEN /\ lresp' = 400
                       /\ lpc' = "done"
                  ELSE /\ lpc' = "updating"
                       /\ UNCHANGED lresp
    /\ UNCHANGED <<lreq, attempts, rpcCalls, rows, waits>>
    /\ UNCHANGED notLogVars

LogSingleNext ==
    \/ LogSingleReceive
    \/ LogSingleRpcAnswer
    \/ LogUpdateDone
    \/ LogReturn

LogSingleSpec == Init /\ [][LogSingleNext]_vars

\* ------------------------------------- tokenGating, getSPLTokenBalance
\* A caller enters getSPLTokenBalance: attempt 0, getConnection() reads the
\* shared index, and the query is sent.
TokenCall(c) ==
    /\ tpc[c] = "idle"
    /\ tpc' = [tpc EXCEPT ![c] = "querying"]
    /\ attempt' = [attempt EXCEPT ![c] = 0]
    /\ lastError' = [lastError EXCEPT ![c] = NoError]
    /\ connection' = [connection EXCEPT ![c] = currentEndpointIndex]
    /\ outcomes' = [outcomes EXCEPT ![c] = <<>>]
    /\ tresult' = [tresult EXCEPT ![c] = NoTokenResult]
    /\ UNCHANGED currentEndpointIndex
    /\ UNCHANGED notTokenVars

\* getParsedTokenAccountsByOwner resolves: the total is returned.
TokenRpcOk(c) ==
    /\ tpc[c] = "querying"
    /\ \E accounts \in TokenAccounts :
          LET totalBalance == TotalBalance(accounts)
          IN  /\ outcomes' = [outcomes EXCEPT ![c] =
                                 Append(@, [ok |-> TRUE, balance |-> totalBalance])]
              /\ tresult' = [tresult EXCEPT ![c] =
                                [kind |-> "return", balance |-> totalBalance,
                                 error |-> NoError]]
    /\ tpc' = [tpc EXCEPT ![c] = "returned"]
    /\ UNCHANGED <<currentEndpointIndex, attempt, connection, lastError>>
    /\ UNCHANGED notTokenVars

\* The attempt throws (the RPC call rejects): lastError is set; if attempts
\* are left the shared index moves on and the 1 s wait starts, else the loop
\* ends and the function throws.
TokenRpcFail(c) ==
    /\ tpc[c] = "querying"
    /\ LET error == [attempt |-> attempt[c] + 1, endpoint |-> connection[c]]
       IN  /\ lastError' = [lastError EXCEPT ![c] = error]
           /\ outcomes' = [outcomes EXCEPT ![c] =
                              Append(@, [ok |-> FALSE, balance |-> 0])]
           /\ IF RetriesLeft(attempt[c])
              THEN /\ currentEndpointIndex' =
                          (currentEndpointIndex + 1) % EndpointCount
                   /\ tpc' = [tpc EXCEPT ![c] = "waiting"]
                   /\ UNCHANGED tresult
              ELSE /\ tresult' = [tresult EXCEPT ![c] = Exhausted(error)]
                   /\ tpc' = [tpc EXCEPT ![c] =
                                 IF tresult'[c].kind = "throw" THEN "thrown"
                                 ELSE "returned"]
                   /\ UNCHANGED currentEndpointIndex
    /\ UNCHANGED <<attempt, connection>>
    /\ UNCHANGED notTokenVars

\* The 1 s wait is over: attempt++, and getConnection() reads the shared
\* index again.
TokenRetry(c) ==
    /\ tpc[c] = "waiting"
    /\ attempt' = [attempt EXCEPT ![c] = @ + 1]
    /\ connection' = [connection EXCEPT ![c] = currentEndpointIndex]
    /\ tpc' = [tpc EXCEPT ![c] = "querying"]
    /\ UNCHANGED <<currentEndpointIndex, lastError, outcomes, tresult>>
    /\ UNCHANGED notTokenVars

\* The caller has its balance or its exception.
TokenDone(c) ==
    /\ tpc[c] \in {"returned", "thrown"}
    /\ tpc' = [tpc EXCEPT ![c] = "idle"]
    /\ attempt' = [attempt EXCEPT ![c] = 0]
    /\ connection' = [connection EXCEPT ![c] = 0]
    /\ lastError' = [lastError EXCEPT ![c] = NoError]
    /\ outcomes' = [outcomes EXCEPT ![c] = <<>>]
    /\ tresult' = [tresult EXCEPT ![c] = NoTokenResult]
    /\ UNCHANGED currentEndpointIndex
    /\ UNCHANGED notTokenVars

TokenNext ==
    \E c \in Callers :
        \/ TokenCall(c)
        \/ TokenRpcOk(c)
        \/ TokenRpcFail(c)
        \/ TokenRetry(c)
        \/ TokenDone(c)

TokenSpec == Init /\ [][TokenNext]_vars

\* ------------------------------------- tokenGating, checkTokenGating
\* checkTokenGating applied to what its three calls answered.
GateCheck ==
    /\ gateIn = NoGateInput /\ gateOut = NoGateResult
    /\ \E in \in GateInputs :
          /\ gateIn' = in
          /\ gateOut' = CheckTokenGating(in)
    /\ UNCHANGED notGateVars

GateNext == GateCheck

GateSpec == Init /\ [][GateNext]_vars

\* ------------------------------------------ useRealtimeMessages, hook
\* .subscribe(): the channel is joined.
HookSubscribed ==
    /\ ~subscribed
    /\ subscribed' = TRUE
    /\ UNCHANGED <<hookMessages, pendingTxRef, fetchpc, fetchData, channel,
                   dbMessages, sendpc, sendId, handled>>
    /\ UNCHANGED notHookVars

\* send-message of another client inserts a row.
OtherInsert ==
    /\ \E id \in MessageIds :
          /\ ~HasId(dbMessages, id)
          /\ LET row == [id |-> id, blockchain_tx_hash |-> "null"]
             IN  /\ dbMessages' = Append(dbMessages, row)
                 /\ channel' = Publish(subscribed, channel, "INSERT", row)
    /\ UNCHANGED <<hookMessages, pendingTxRef, fetchpc, fetchData, subscribed,
                   sendpc, sendId, handled>>
    /\ UNCHANGED notHookVars

\* The select of fetchMessages runs on the table, or fails.
FetchSelect ==
    /\ fetchpc = "sent"
    /\ \E error \in BOOLEAN :
          IF error
          THEN /\ fetchpc' = "failed"
               /\ UNCHANGED fetchData
          ELSE /\ fetchpc' = "fetched"
               /\ fetchData' = dbMessages
    /\ UNCHANGED <<hookMessages, pendingTxRef, subscribed, channel, dbMessages,
                   sendpc, sendId, handled>>
    /\ UNCHANGED notHookVars

\* The rows are back and decrypted: setMessages(decryptedMessages).
FetchApply ==
    /\ fetchpc = "fetched"
    /\ fetchpc' = "applied"
    /\ hookMessages' = fetchData
    /\ UNCHANGED <<pendingTxRef, fetchData, subscribed, channel, dbMessages,
                   sendpc, sendId, handled>>
    /\ UNCHANGED notHookVars

\* The INSERT handler: merge the pending tx hash, append the row.
HandleInsert ==
    /\ channel # <<>>
    /\ Head(channel).event = "INSERT"
    /\ LET newMessage == Head(channel).new
       IN  /\ hookMessages' = Append(hookMessages, MergePending(newMessage, pendingTxRef))
           /\ pendingTxRef' = PendingAfterMerge(newMessage, pendingTxRef)
           /\ handled' = handled \cup {newMessage.id}
    /\ channel' = Tail(channel)
    /\ UNCHANGED <<fetchpc, fetchData, subscribed, dbMessages, sendpc, sendId>>
    /\ UNCHANGED notHookVars

\* The UPDATE handler: merge the pending tx hash, replace the row in place.
HandleUpdate ==
    /\ channel # <<>>
    /\ Head(channel).event = "UPDATE"
    /\ LET updatedMessage == Head(channel).new
       IN  /\ hookMessages' = ReplaceById(hookMessages, MergePending(updatedMessage, pendingTxRef))
           /\ pendingTxRef' = PendingAfterMerge(updatedMessage, pendingTxRef)
    /\ channel' = Tail(channel)
    /\ UNCHANGED <<fetchpc, fetchData, subscribed, dbMessages, sendpc, sendId,
                   handled>>
    /\ UNCHANGED notHookVars

\* sendMessage: send-message stored the row and returned its id; the memo
\* transaction is being signed and sent.
SendStored ==
    /\ sendpc = "idle"
    /\ \E id \in MessageIds :
          /\ ~HasId(dbMessages, id)
          /\ LET row == [id |-> id, blockchain_tx_hash |-> "null"]
             IN  /\ dbMessages' = Append(dbMessages, row)
                 /\ channel' = Publish(subscribed, channel, "INSERT", row)
          /\ sendId' = id
    /\ sendpc' = "signing"
    /\ UNCHANGED <<hookMessages, pendingTxRef, fetchpc, fetchData, subscribed,
                   handled>>
    /\ UNCHANGED notHookVars

\* sendMessage: the optimistic update with the tx signature.
SendOptimistic ==
    /\ sendpc = "signing"
    /\ IF HasId(hookMessages, sendId)
       THEN /\ hookMessages' =
                  [i \in 1..Len(hookMessages) |->
                      IF hookMessages[i].id = sendId
                      THEN [hookMessages[i] EXCEPT !.blockchain_tx_hash = "sigA"]
                      ELSE hookMessages[i]]
            /\ UNCHANGED pendingTxRef
       ELSE /\ pendingTxRef' = [pendingTxRef EXCEPT ![sendId] = "sigA"]
            /\ UNCHANGED hookMessages
    /\ sendpc' = "logging"
    /\ UNCHANGED <<fetchpc, fetchData, subscribed, channel, dbMessages, sendId,
                   handled>>
    /\ UNCHANGED notHookVars

\* sendMessage: log-to-solana wrote the hash on the row, or failed (both
\* ways), which sendMessage only logs.
SendLogged ==
    /\ sendpc = "logging"
    /\ \E logOk \in BOOLEAN :
          IF logOk
          THEN LET row == [id |-> sendId, blockchain_tx_hash |-> "sigA"]
               IN  /\ dbMessages' = ReplaceById(dbMessages, row)
                   /\ channel' = Publish(subscribed, channel, "UPDATE", row)
          ELSE UNCHANGED <<dbMessages, channel>>
    /\ sendpc' = "idle"
    /\ UNCHANGED <<hookMessages, pendingTxRef, fetchpc, fetchData, subscribed,
                   sendId, handled>>
    /\ UNCHANGED notHookVars

HookNext ==
    \/ HookSubscribed
    \/ OtherInsert
    \/ FetchSelect
    \/ FetchApply
    \/ HandleInsert
    \/ HandleUpdate
    \/ SendStored
    \/ SendOptimistic
    \/ SendLogged

HookSpec == Init /\ [][HookNext]_vars

\* ------------------------------------------------------------- claims
\* A request is being handled, or its response is ready.
Handling == vcaller # "none"

\* The handler has produced its response.
Answered == vpc = "done"

\* The proof is absent or lacks one of pi_a, pi_b, pi_c.
ProofLacksField(proof) ==
    \/ ~proof.present
    \/ proof.pi_a = Absent \/ proof.pi_b = Absent \/ proof.pi_c = Absent

\* publicSignals is absent or has fewer than 2 elements.
TooFewSignals(publicSignals) ==
    ~publicSignals.present \/ Len(publicSignals.arr) < 2

\* The delegate answered 2xx with a JSON body whose verified field is v.
DelegateAnswered(v) ==
    /\ dend = "answered"
    /\ dresp.status >= 200 /\ dresp.status <= 299
    /\ dresp.parseable
    /\ dresp.verified = v

\* The row the finished send-message request inserted.
StoredRow == messages[Len(messages)]

Stored == smpc = "done" /\ smresp.success

\* C1: a request whose proof is absent or lacks pi_a, pi_b or pi_c is answered
\* at once with status 400, verified=false and 'Invalid proof structure'; no
\* delegate call is made and no Groth16 check runs for it.
C1_MissingProofFieldIsInvalidInput ==
    (Handling /\ ProofLacksField(request.proof)) =>
        /\ Answered
        /\ response.status = 400
        /\ response.verified = FALSE
        /\ response.error = "Invalid proof structure"
        /\ delegateCalls = 0
        /\ cryptoChecks = 0
        /\ dend = "none"

\* C1 witness: a proof that lacks only pi_c, sent with a key and a delegate
\* endpoint, was answered 400.
C1_Witness ==
    /\ Answered
    /\ request.proof.present
    /\ request.proof.pi_a = "valid" /\ request.proof.pi_b = "valid"
    /\ request.proof.pi_c = Absent
    /\ request.vkey = "vk" /\ request.verifierUrl = "url"
    /\ response.status = 400

\* C2 as stated: every request with absent or too few public signals is
\* answered 400, verified=false, 'Invalid public signals', with no delegate call.
C2_Original ==
    (Handling /\ TooFewSignals(request.publicSignals)) =>
        /\ Answered
        /\ response.status = 400
        /\ response.verified = FALSE
        /\ response.error = "Invalid public signals"
        /\ delegateCalls = 0

\* C2 amended: a request with absent or too few public signals is answered
\* 400 with verified=false and no delegate call; the error is 'Invalid public
\* signals' when the proof passes the structure check, which runs first, and
\* 'Invalid proof structure' when it does not.
C2_TooFewSignalsIsInvalidInput ==
    (Handling /\ TooFewSignals(request.publicSignals)) =>
        /\ Answered
        /\ response.status = 400
        /\ response.verified = FALSE
        /\ delegateCalls = 0
        /\ cryptoChecks = 0
        /\ response.error =
              IF /\ request.proof.present
                 /\ Truthy(request.proof.pi_a) /\ Truthy(request.proof.pi_b)
                 /\ Truthy(request.proof.pi_c)
              THEN "Invalid public signals"
              ELSE "Invalid proof structure"

\* C2 witness: a well-formed proof with one public signal, a key and a
\* delegate endpoint was answered 'Invalid public signals'.
C2_Witness ==
    /\ Answered
    /\ request.proof.present
    /\ request.proof.pi_a = "valid" /\ request.proof.pi_b = "valid"
    /\ request.proof.pi_c = "valid"
    /\ request.publicSignals.present /\ Len(request.publicSignals.arr) = 1
    /\ request.vkey = "vk" /\ request.verifierUrl = "url"
    /\ response.error = "Invalid public signals"

\* C3 as stated, at the requests of the spec's example (empty pi_a, pi_b and
\* pi_c with at least two public signals, so that only the proof can be at
\* fault): the response is 400, verified=false, 'Invalid proof structure'.
C3_EmptyFieldsAreInvalidInput ==
    (/\ Answered
     /\ request.proof.present
     /\ request.proof.pi_a = "emptyArray" /\ request.proof.pi_b = "emptyArray"
     /\ request.proof.pi_c = "emptyArray"
     /\ ~TooFewSignals(request.publicSignals)) =>
        /\ response.status = 400
        /\ response.verified = FALSE
        /\ response.error = "Invalid proof structure"

\* The request passed both checks of the handler.
StructurallyValid ==
    /\ request.proof.present
    /\ Truthy(request.proof.pi_a) /\ Truthy(request.proof.pi_b)
    /\ Truthy(request.proof.pi_c)
    /\ request.publicSignals.present /\ Len(request.publicSignals.arr) >= 2

C5_RejectedProofNeverStoredVerified ==
    (Stored /\ groth16Result = "false") => ~StoredRow.verified

\* C6 as stated: when the delegate answers verified=false, the outcome of
\* verify-zk-proof is verified=true with the structural-only note.
C6_Original ==
    (Answered /\ DelegateAnswered("false")) =>
        /\ response.verified = TRUE
        /\ response.note # Absent

\* C6 amended: when the delegate answers verified=false, the outcome of
\* verify-zk-proof is status 200 with verified=false, the delegate's
\* timestamp and the labelled signals, and neither note nor error.
C6_DelegateRejectionIsReported ==
    (Answered /\ DelegateAnswered("false")) =>
        /\ response.status = 200
        /\ response.verified = FALSE
        /\ response.timestamp = dresp.timestamp
        /\ response.threshold = SignalAt(request.publicSignals, 0)
        /\ response.commitment = SignalAt(request.publicSignals, 1)
        /\ response.note = Absent
        /\ response.error = Absent

\* C6 witness: the delegate ran the Groth16 check, answered verified=false,
\* and verify-zk-proof has answered.
C6_Witness ==
    /\ Answered
    /\ DelegateAnswered("false")
    /\ groth16Result = "false"
    /\ response.status = 200

C8_NoKeyNoDelegateIsStructuralAccept ==
    (Handling /\ StructurallyValid
        /\ request.vkey = "null" /\ request.verifierUrl = "undefined") =>
        /\ Answered
        /\ response.status = 200
        /\ response.verified = TRUE
        /\ response.note = StructuralNote
        /\ response.error = Absent
        /\ response.timestamp = Absent
        /\ response.threshold = SignalAt(request.publicSignals, 0)
        /\ response.commitment = SignalAt(request.publicSignals, 1)
        /\ delegateCalls = 0

\* C8 witness: an untampered proof with three signals, no key and no
\* delegate endpoint was answered.
C8_Witness ==
    /\ Answered
    /\ StructurallyValid
    /\ request.proof.pi_a = "valid"
    /\ Len(request.publicSignals.arr) = 3
    /\ request.vkey = "null" /\ request.verifierUrl = "undefined"
    /\ response.verified

\* C9: when the delegate answers 2xx with verified=true, the outcome is
\* status 200, verified=true, with a timestamp and the labelled signals, and
\* neither note nor error.
C9_DelegateAcceptIsCryptographic ==
    (Answered /\ DelegateAnswered("true")) =>
        /\ response.status = 200
        /\ response.verified = TRUE
        /\ response.timestamp # Absent
        /\ response.threshold = SignalAt(request.publicSignals, 0)
        /\ response.commitment = SignalAt(request.publicSignals, 1)
        /\ response.note = Absent
        /\ response.error = Absent

\* C9 witness: the service's Groth16 check returned true and verify-zk-proof
\* has answered.
C9_Witness ==
    /\ Answered
    /\ DelegateAnswered("true")
    /\ groth16Result = "true"
    /\ response.threshold # response.commitment

\* C10 as stated: every verified=true outcome is either a structural accept
\* (note, no timestamp) or a cryptographic accept (timestamp, no note), and
\* the verified flag send-message stores keeps them apart: a message accepted
\* on structure alone is not stored with verified=true.
C10_AcceptModesStayDistinguishable ==
    /\ (Answered /\ response.verified) =>
           (response.note = Absent) # (response.timestamp = Absent)
    /\ (Stored /\ response.note # Absent) => ~StoredRow.verified

\* The response of the handler is the function HandlerResponse of its
\* request and of how the delegate call ended.
OutcomeMatchesHandler ==
    Answered => response = HandlerResponse(request, [how |-> dend, d |-> dresp])

KeyParseFailed == smresp.status = 500 /\ smresp.error = "Unexpected token in JSON"

\* C12 as stated: when the key source is unavailable (no object, a failed
\* download, malformed JSON) the load yields no key and the request goes on
\* in no-key mode; it does not fail because of the key.
C12_Original ==
    vkeyLoad \in {"missing", "malformed"} =>
        /\ ~KeyParseFailed
        /\ vcaller = "send-message" => request.vkey = "null"

\* C12 amended: when the download gives no data (no object, a failed
\* download) the load yields no key and verify-zk-proof is invoked with vkey
\* null; when it gives malformed JSON the parse throws and the request ends
\* with status 500, verify-zk-proof is not invoked and no message is stored.
C12_MissingKeyToleratedMalformedKeyFails ==
    /\ vkeyLoad = "missing" =>
          /\ ~KeyParseFailed
          /\ vcaller = "send-message" => request.vkey = "null"
    /\ vkeyLoad = "malformed" =>
          /\ smpc = "done"
          /\ KeyParseFailed
          /\ ~smresp.success
          /\ vcaller = "none"

\* C12 witness: the download gave no data, verify-zk-proof accepted the
\* request on structure alone and the message was stored.
C12_Witness ==
    /\ vkeyLoad = "missing"
    /\ Stored
    /\ request.vkey = "null"
    /\ response.note = StructuralNote

\* The delegate answered 2xx without a timestamp the handler can use.
DelegateGaveNoTimestamp(end) ==
    /\ end.how = "answered"
    /\ end.d.status >= 200 /\ end.d.status <= 299
    /\ ~end.d.parseable \/ ~JsBoolean(end.d.timestamp)

\* The two calls had the same request and the same end of the delegate call.
SameCallTwice ==
    /\ callA # NoCall
    /\ callA.request = callB.request
    /\ callA.delegate = callB.delegate

PassesValidation(r) == ProofStructureOk(r.proof) /\ PublicSignalsOk(r.publicSignals)

\* The response labels publicSignals[0] and publicSignals[1] of its request.
Labelled(c) ==
    /\ c.response.threshold = SignalAt(c.request.publicSignals, 0)
    /\ c.response.commitment = SignalAt(c.request.publicSignals, 1)

\* C14 as stated: every outcome produced after structural validation
\* succeeded carries threshold = publicSignals[0] and commitment =
\* publicSignals[1], and signals beyond index 1 never change the outcome.
C14_Original ==
    /\ \A c \in {callA, callB} : PassesValidation(c.request) => Labelled(c)
    /\ (callA # NoCall /\ callA.request # callB.request) =>
          callA.response = callB.response

\* C14 amended: after structural validation succeeded every status-200
\* outcome carries threshold = publicSignals[0] and commitment =
\* publicSignals[1], and every other outcome is a 502 that carries no
\* signals; signals beyond index 1 do not change the outcome of a request
\* that is not forwarded or whose delegate call ends the same way, but they
\* are forwarded to the delegate, whose answer may depend on them.
C14_LabelsOnDecisionsOnly ==
    /\ \A c \in {callA, callB} :
          PassesValidation(c.request) =>
              IF c.response.status = 200
              THEN Labelled(c)
              ELSE /\ c.response.status = 502
                   /\ c.response.threshold = Absent
                   /\ c.response.commitment = Absent
    /\ (/\ callA # NoCall
        /\ callA.request # callB.request
        /\ ~ShouldForward(callA.request) \/ callA.delegate = callB.delegate) =>
          callA.response = callB.response

\* C14 witness: two forwarded requests that differ only in their third
\* signal were both answered 200 with the same labels, one verified and the
\* other not.
C14_Witness ==
    /\ callA.request # callB.request
    /\ callA.response.status = 200 /\ callB.response.status = 200
    /\ callA.response.threshold = callB.response.threshold
    /\ callA.response.commitment = callB.response.commitment
    /\ callA.response.verified /\ ~callB.response.verified

\* C15 as stated: status 200 with verified=false is answered only when a
\* Groth16 check returned false, and a delegate reply that is no definitive
\* answer (a body that is not JSON, no verified field) is answered as an
\* error, with status 502 or 500.
C15_FailureIsNotANegativeDecision ==
    /\ (Answered /\ response.status = 200 /\ ~response.verified) =>
          groth16Result = "false"
    /\ (Answered /\ dend = "answered"
          /\ (~dresp.parseable \/ dresp.verified = Absent)) =>
          response.status \in {500, 502}

\* C16 as stated, on finite runs: whenever the handler is suspended on the
\* delegate, waiting for the response or for its body, the 10 s abort timer
\* is armed, so that no wait of the request is unbounded.
C16_EveryWaitIsBounded ==
    vpc \in {"fetching", "reading"} => timerArmed

\* C17 as stated: a request whose timestamp differs from the server clock by
\* more than 15 seconds, in either direction, is rejected with status 401 and
\* stores no message.
C17_StaleTimestampIsRejected ==
    (smpc # "idle" /\ Abs(smclock) > DocumentedWindowMs) =>
        /\ smpc = "done"
        /\ smresp.status = 401
        /\ ~smresp.success

\* C18 as stated: a request that repeats an accepted one is rejected, so that
\* one on-chain transaction authenticates at most one stored message.
C18_OneTransactionOneMessage ==
    \A i, j \in DOMAIN messages :
        i # j => messages[i].blockchain_tx_hash # messages[j].blockchain_tx_hash

\* C19 as stated: a message is stored only for a request whose wallet was
\* checked to hold the required amount; no stored message comes from a
\* request that skipped or failed the token-balance check.
C19_StoredOnlyAfterBalanceCheck ==
    Stored => tokenGate = "passed"

\* C20 as stated: a structurally valid request with a verifierUrl is
\* forwarded to the delegate; it is never accepted on structure alone without
\* the delegate having been called.
C20_Original ==
    (Answered /\ StructurallyValid /\ request.verifierUrl = "url") =>
        /\ delegateCalls = 1
        /\ response.note = Absent

\* C20 amended: a structurally valid request is forwarded to the delegate
\* exactly when it has both a verifierUrl and a vkey, so the forwarded body
\* always holds the key; a request with a verifierUrl and no vkey is accepted
\* on structure alone, with the note, and the delegate is not called.
C20_ForwardedOnlyWithUrlAndKey ==
    (Handling /\ StructurallyValid) =>
        /\ delegateCalls = 1 <=>
             (request.verifierUrl = "url" /\ request.vkey = "vk")
        /\ (request.verifierUrl = "url" /\ request.vkey = "null") =>
             /\ Answered
             /\ delegateCalls = 0
             /\ cryptoChecks = 0
             /\ response.status = 200
             /\ response.verified = TRUE
             /\ response.note = StructuralNote

\* C20 witness: send-message found no key in storage, invoked verify-zk-proof
\* with the verifier's URL and no vkey, and the request was accepted on
\* structure alone without a delegate call.
C20_Witness ==
    /\ Answered
    /\ vcaller = "send-message"
    /\ vkeyLoad = "missing"
    /\ StructurallyValid
    /\ request.verifierUrl = "url" /\ request.vkey = "null"
    /\ delegateCalls = 0
    /\ response.note = StructuralNote

\* C21: send-message inserts a row only when its call of verify-zk-proof
\* ended with a 2xx decision; when verify-zk-proof answered anything else
\* (400, 502) send-message answers with an error, status 500, and the messages
\* table is left as it was.
C21_StoredOnlyAfterDecision ==
    [][(smpc = "verifying" /\ smpc' = "done") =>
          /\ messages' # messages =>
                (Answered /\ response.status >= 200 /\ response.status <= 299)
          /\ ~(response.status >= 200 /\ response.status <= 299) =>
                /\ messages' = messages
                /\ smresp'.status = 500
                /\ smresp'.error = "Failed to verify zero-knowledge proof"
                /\ ~smresp'.success]_vars

\* C21 witness: verify-zk-proof answered 502, the delegate being unreachable,
\* and send-message has answered 500.
C21_Witness ==
    /\ smpc = "done"
    /\ vcaller = "send-message"
    /\ Answered
    /\ response.status = 502
    /\ smresp.status = 500
    /\ messages = <<>>

\* C30: every request verify-zk-proof forwards passes the input validation of
\* the verifier service: the service never answers a forwarded request with
\* 400, and no 502 of verify-zk-proof reports a delegate status of 400.
C30_ForwardedRequestsPassServiceValidation ==
    /\ (dend = "answered" /\ dresp.parseable) => dresp.status # 400
    /\ vpc = "fetching" =>
          ServiceValidate([proof |-> request.proof,
                           publicSignals |-> request.publicSignals,
                           vkey |-> request.vkey]) = NoDelegateResponse
    /\ Answered => response.dstatus # 400

\* C30 witness: a proof with an empty pi_a, which both validations let
\* through, was forwarded and answered by the service's Groth16 check.
C30_Witness ==
    /\ Answered
    /\ request.proof.pi_a = "emptyArray"
    /\ dend = "answered"
    /\ dresp.parseable
    /\ cryptoChecks = 1

\* The checks of send-message let the request through to the proof and the
\* insert.
Authenticated == authIn # NoAuthInput /\ authOut = NoSmResponse

\* C22 as stated: a request is authenticated, and its message can be stored,
\* only if the transaction exists, its first account key is the claimed
\* wallet and its memo contains the message hash; a transaction without a
\* memo holding that hash never authenticates a message.
C22_AuthenticatedByMemoOfTransaction ==
    Authenticated =>
        /\ authIn.txData.found
        /\ authIn.txData.signer = authIn.walletAddress
        /\ authIn.txData.memo = authIn.messageHash

\* C23 as stated: blockchain_tx_hash of a row changes only in the update
\* that follows a getTransaction answer with a result, and only to the
\* request's signature on the request's message; when the call gave no
\* result the row is left as it was.
C23_HashWrittenOnlyAfterResult ==
    [][rows' # rows =>
          /\ ltxData = "result"
          /\ lpc = "updating"
          /\ lresp' = 200
          /\ rows' = [rows EXCEPT ![lreq.messageId] = lreq.transactionSignature]]_vars

\* C24: the loop makes at most 3 getTransaction calls for a request, one for
\* each attempt; it makes no further call once a call gave a result; a 2 s
\* wait is started after an attempt without a result that is not the last,
\* for an RPC error and for an unconfirmed transaction alike, and never after
\* the last attempt; a 202 is answered after exactly 3 attempts.
C24_LoopIsBoundedAndWaitsBetweenAttempts ==
    /\ rpcCalls = attempts
    /\ rpcCalls <= 3
    /\ HasResult(ltxData) => lpc \in {"updating", "done"}
    /\ lpc = "waiting" => (ltxData \in {"error", "pending"} /\ attempts < 3)
    /\ waits = IF lpc = "waiting" THEN attempts
               ELSE IF attempts = 0 THEN 0
               ELSE attempts - 1
    /\ waits <= 2
    /\ lresp = 202 => attempts = 3

\* C24 witness: the first attempt gave an RPC error, the second an
\* unconfirmed transaction, each followed by a wait, and the third call is
\* in flight.
C24_Witness ==
    /\ lpc = "calling"
    /\ attempts = 3
    /\ waits = 2
    /\ ltxData = "pending"

\* The attempts a call of getSPLTokenBalance has started.
AttemptsStarted(c) == Len(outcomes[c]) + (IF tpc[c] = "querying" THEN 1 ELSE 0)

\* Every attempt of the call before its last one failed.
EarlierAttemptsFailed(c) ==
    \A i \in 1..(Len(outcomes[c]) - 1) : ~outcomes[c][i].ok

C26_RetryOnAnotherEndpoint ==
    /\ currentEndpointIndex \in 0..(EndpointCount - 1)
    /\ \A c \in Callers :
          (tpc[c] = "querying" /\ attempt[c] >= 1) =>
              connection[c] # lastError[c].endpoint

\* C27 as stated: in the result of checkTokenGating, on either path, allowed
\* is true exactly when balance is at least required; the fallback result is
\* returned only when the backend call failed.
C27_AllowedIffBalanceCoversRequired ==
    gateOut.kind = "return" =>
        /\ gateOut.allowed <=> (gateOut.balance >= gateOut.required)
        /\ gateOut.path = "fallback" => ~BackendSucceeds(gateIn.backend)

\* C28 as stated: the local messages list never holds two entries with the
\* same message id, however the fetch result, the INSERT and UPDATE events
\* and the optimistic update of sendMessage interleave.
C28_OneEntryPerMessageId ==
    \A id \in MessageIds : CountId(hookMessages, id) <= 1

\* C29 as stated: a message whose INSERT event the hook has handled is in
\* the local messages list from then on, also when the event was handled
\* before the result of the initial fetch is applied.
C29_HandledInsertStaysInList ==
    \A id \in handled : HasId(hookMessages, id)

====
